---- MODULE Spec2Model ----
(***************************************************************************)
(* Model of the per-user database connection broker of the Go backend:     *)
(* DatabaseConfigHandler (handlers/database_config.go), the SQL playground *)
(* (handlers/sql_playground.go) and the SSH tunnel (database/ssh tunnel).  *)
(*                                                                         *)
(* Spec      the broker: request goroutines running the handlers against   *)
(*           the configuration tables, the pool/tunnel caches and h.mu.    *)
(* SpecQuery the validation front of ExecuteQuery over concrete SQL text.  *)
(* SpecCrypto ConfigEncryption (auth/encryption.go): EncryptConfig, a       *)
(*           stored value that may be altered, DecryptConfig.               *)
(* SpecRateLimit the limiter maps of middleware/ratelimit.go, their         *)
(*           requests and their hourly cleanup goroutines.                  *)
(* SpecSchemaPool concurrent getDatabaseSchema calls on one user's pool.    *)
(* SpecPostgres PostgresDB (database/postgres.go): the health check with    *)
(*           connect, Close, Query.                                         *)
(***************************************************************************)
EXTENDS Integers, Sequences, FiniteSets, TLC

\* ------------------------------------------------------------------ bounds
MaxPools == 2       \* pools ever built by pgxpool.NewWithConfig
MaxTunnels == 2     \* tunnels ever built by NewSSHTunnel
MaxConfigs == 2     \* CreateDatabaseConfig commits, all users together
MaxTokens == 3      \* tokens a request's SQL text is made of
MaxAccepts == 2     \* connections the tunnel's listener accepts
MaxCloses == 3      \* calls of SSHTunnel.Close
MaxTables == 2      \* base tables of the user's database
MaxViews == 2       \* views of the user's database

\* ------------------------------------------------------- program constants
BasePort == 15432

Users == {"u1", "u2"}
Procs == {"p1", "p2"}
ConnTypes == {"postgresql", "ssh", "wireguard"}
NoType == ""
NoPool == 0
NoTunnel == 0
Free == "free"

VARIABLES
    activeType,        \* users.active_connection_type, per user
    totalConnections,  \* users.total_connections, per user
    rows,              \* database_configs / ssh_configs / wireguard_configs rows
    userResources,     \* users with a user_resources row of type database_config
    userDBPools,       \* h.userDBPools: user -> pool id (NoPool: no entry)
    userSSHTunnels,    \* h.userSSHTunnels: user -> tunnel id (NoTunnel: no entry)
    pools,             \* every pgxpool.Pool built so far
    tunnels,           \* every SSHTunnel built so far
    mu,                \* h.mu: the goroutine holding the write lock, or Free
    pc,                \* position of each request goroutine
    loc,               \* locals of each request goroutine
    qsql,              \* SpecQuery: the request's SQL text
    qpc,               \* SpecQuery: position of the ExecuteQuery request
    qcalls,            \* SpecQuery: collaborators the request has invoked
    qopt,              \* SpecQuery: the request's options
    qsent,             \* SpecQuery: the statement handed to pool.Query
    qconns,            \* SpecQuery: pool connections the request holds
    qlog,              \* SpecQuery: the usage record of logQueryExecution
    sshTunnel,         \* SpecTunnel: the SSHTunnel fields client and closed
    sshClient,         \* SpecTunnel: the ssh.Client that connect dialled
    tmu,               \* SpecTunnel: tunnel.mu, its write holder or Free
    listener,          \* SpecTunnel: the local listener of handleTunnel
    hpc,               \* SpecTunnel: position of the handleTunnel goroutine
    kpc,               \* SpecTunnel: position of the healthCheck goroutine
    cpc,               \* SpecTunnel: position of each caller of Close
    accepted,          \* SpecTunnel: connections listener.Accept has returned
    closeReturns,      \* SpecTunnel: calls of Close that have returned
    panicked,          \* SpecTunnel: a goroutine has panicked
    senv,              \* SpecSchema: what the user's database answers
    spc,               \* SpecSchema: position of getDatabaseSchema
    si,                \* SpecSchema: rows read in the running loop
    schema,            \* SpecSchema: the SchemaInfo built, and the error
    encReq,            \* SpecCrypto: userID, configType, data, nonce of EncryptConfig
    stored,            \* SpecCrypto: the encoded value kept in the database
    decReq,            \* SpecCrypto: userID, configType of DecryptConfig
    decRes,            \* SpecCrypto: what DecryptConfig returned
    epc,               \* SpecCrypto: position of the scenario
    ips,               \* SpecRateLimit: IPRateLimiter.ips
    limiters,          \* SpecRateLimit: the map of UserRateLimitMiddleware
    ipTick,            \* SpecRateLimit: a tick of the IP cleanup ticker is pending
    userTick,          \* SpecRateLimit: a tick of the user cleanup ticker is pending
    schemaReqs,        \* SpecSchemaPool: schema requests at each stage
    dbPools,           \* SpecPostgres: every pool connect has built
    dbPool,            \* SpecPostgres: db.pool (NoDBPool: nil)
    dbmu,              \* SpecPostgres: db.mu, its write holder or Free
    hcpc,              \* SpecPostgres: position of the healthCheck goroutine
    dcpc,              \* SpecPostgres: position of the caller of Close
    dbCloses,          \* SpecPostgres: calls of Close that have returned
    dbq                \* SpecPostgres: what the latest Query or Exec did

dbvars == <<activeType, totalConnections, rows, userResources>>
cachevars == <<userDBPools, userSSHTunnels, pools, tunnels, mu>>
brokervars == <<activeType, totalConnections, rows, userResources, userDBPools,
                userSSHTunnels, pools, tunnels, mu, pc, loc>>
qvars == <<qsql, qpc, qcalls, qopt, qsent, qconns, qlog>>
tvars == <<sshTunnel, sshClient, tmu, listener, hpc, kpc, cpc, accepted,
          closeReturns, panicked>>
svars == <<senv, spc, si, schema>>
cvars == <<encReq, stored, decReq, decRes, epc>>
\* the variables of the specifications outside the connection broker
rvars == <<ips, limiters, ipTick, userTick>>
gvars == <<schemaReqs>>
pvars == <<dbPools, dbPool, dbmu, hcpc, dcpc, dbCloses, dbq>>
extravars == <<cvars, rvars, gvars, pvars>>
\* the variables the broker's actions leave alone
sidevars == <<qvars, tvars, svars, extravars>>
\* the variables the actions of ExecuteQuery over SQL text leave alone
nonqueryvars == <<brokervars, tvars, svars, extravars>>
\* the variables the tunnel's actions leave alone
nontunnelvars == <<brokervars, qvars, svars, extravars>>
\* the variables the actions of getDatabaseSchema leave alone
nonschemavars == <<brokervars, qvars, tvars, extravars>>
\* the variables the actions of ConfigEncryption leave alone
noncryptovars == <<brokervars, qvars, tvars, svars, rvars, gvars, pvars>>
\* the variables the actions of the rate limiters leave alone
nonratevars == <<brokervars, qvars, tvars, svars, cvars, gvars, pvars>>
\* the variables the actions of the concurrent schema requests leave alone
nonpoolvars == <<brokervars, qvars, tvars, svars, cvars, rvars, pvars>>
\* the variables the actions of PostgresDB leave alone
nonpgvars == <<brokervars, qvars, tvars, svars, cvars, rvars, gvars>>
vars == <<brokervars, qvars, tvars, svars, extravars>>

\* ------------------------------------------------------------- SQL text
\* A string is a sequence of one-character strings.
Whitespace == {" ", "\t", "\n"}

ToUpperChar(c) ==
    CASE c = "d" -> "D" [] c = "r" -> "R" [] c = "o" -> "O" [] c = "p" -> "P"
      [] c = "s" -> "S" [] c = "e" -> "E" [] c = "l" -> "L" [] c = "c" -> "C"
      [] c = "t" -> "T" [] c = "u" -> "U" [] c = "a" -> "A"
      [] c = "i" -> "I" [] c = "m" -> "M"
      [] OTHER -> c

ToUpper(s) == [i \in 1..Len(s) |-> ToUpperChar(s[i])]

RECURSIVE TrimLeft(_)
TrimLeft(s) ==
    IF s # <<>> /\ Head(s) \in Whitespace THEN TrimLeft(Tail(s)) ELSE s

RECURSIVE TrimRight(_)
TrimRight(s) ==
    IF s # <<>> /\ s[Len(s)] \in Whitespace
    THEN TrimRight(SubSeq(s, 1, Len(s) - 1)) ELSE s

TrimSpace(s) == TrimRight(TrimLeft(s))

Contains(s, sub) ==
    \E i \in 0..(Len(s) - Len(sub)) : SubSeq(s, i + 1, i + Len(sub)) = sub

HasPrefix(s, pre) == Len(s) >= Len(pre) /\ SubSeq(s, 1, Len(pre)) = pre

\* The denylist of isDangerousQuery, as written: each statement keyword carries
\* a trailing blank, CREATE USER and DROP USER do not.
Dangerous == {
    <<"D","R","O","P"," ">>,
    <<"D","E","L","E","T","E"," ">>,
    <<"T","R","U","N","C","A","T","E"," ">>,
    <<"A","L","T","E","R"," ">>,
    <<"C","R","E","A","T","E"," ","U","S","E","R">>,
    <<"D","R","O","P"," ","U","S","E","R">>,
    <<"G","R","A","N","T"," ">>,
    <<"R","E","V","O","K","E"," ">>,
    <<"I","N","S","E","R","T"," ">>,
    <<"U","P","D","A","T","E"," ">>,
    <<"C","O","P","Y"," ">> }

isDangerousQuery(sql) ==
    LET upperSQL == ToUpper(TrimSpace(sql))
    IN  \E keyword \in Dangerous : Contains(upperSQL, keyword)

\* ------------------------------------------------------------ the broker
\* QueryOptions of a request that sets none
NoOptions == [limit |-> 0, explain |-> FALSE, dryRun |-> FALSE]

NoRow == [ver |-> 0, active |-> FALSE]

IdleLoc == [op |-> "none", usr |-> "", ctype |-> NoType, ver |-> 0,
            tun |-> NoTunnel, pool |-> NoPool]

RECURSIVE SumOver(_, _)
SumOver(f, S) ==
    IF S = {} THEN 0 ELSE LET x == CHOOSE y \in S : TRUE IN f[x] + SumOver(f, S \ {x})

\* len(h.userSSHTunnels), read by createUserConnection without h.mu
CachedTunnelCount == Cardinality({u \in Users : userSSHTunnels[u] # NoTunnel})

LocalPort == BasePort + CachedTunnelCount

\* a caller that drops the tunnel without closing it
LeaveTunnelOpen(ts, t) == ts

CloseTunnel(ts, t) == IF t = NoTunnel THEN ts ELSE [ts EXCEPT ![t].closed = TRUE]

\* A closed pool: nothing of it is read again but whether it is closed and how
\* many of its connections are still held
ClosedPool(pl) == [owner |-> "", ver |-> 0, tunnel |-> NoTunnel, state |-> "closed",
                   pinged |-> pl.pinged, inUse |-> pl.inUse]

ClosePool(ps, id) == IF id = NoPool THEN ps ELSE [ps EXCEPT ![id] = ClosedPool(@)]

\* a Close that does not wait for the connections in use
PoolCloseNoWait(id) == TRUE

\* pgxpool.Pool.Close returns once every acquired connection has been released
PoolCloseReady(id) == pools[id].inUse = 0

\* the handler has answered: its goroutine ends
Return(p) ==
    /\ pc' = [pc EXCEPT ![p] = "idle"]
    /\ loc' = [loc EXCEPT ![p] = IdleLoc]

Closers == {"c1", "c2"}

\* the tunnel as NewSSHTunnel returns it: connect has dialled the client and
\* started handleTunnel, which has not listened yet
TunnelInit ==
    /\ sshTunnel = [client |-> "set", closed |-> FALSE]
    /\ sshClient = "open"
    /\ tmu = Free
    /\ listener = "none"
    /\ hpc = "listen"
    /\ kpc = "wait"
    /\ cpc = [c \in Closers |-> "idle"]
    /\ accepted = 0
    /\ closeReturns = 0
    /\ panicked = FALSE

\* SchemaInfo{}: Tables and Views are nil slices, of length 0
EmptySchema == [tables |-> <<>>, views |-> <<>>, err |-> FALSE]

\* no schema request
SchemaOff ==
    /\ senv = [nTables |-> 0, nViews |-> 0, statsReadable |-> TRUE, viewsOk |-> TRUE,
               counts |-> <<>>, tableColsFail |-> {}, viewColsFail |-> {}]
    /\ spc = "off"
    /\ si = 0
    /\ schema = EmptySchema

NoResult == [err |-> FALSE, plaintext |-> <<>>]

CryptoOff ==
    /\ encReq = [userID |-> <<>>, configType |-> <<>>, data |-> <<>>, nonce |-> <<>>]
    /\ stored = <<>>
    /\ decReq = [userID |-> <<>>, configType |-> <<>>]
    /\ decRes = NoResult
    /\ epc = "off"

IPs == {"ip1", "ip2"}
NoLimiter == [present |-> FALSE, tokens |-> 0, idle |-> 0]

RateOff ==
    /\ ips = [k \in IPs |-> NoLimiter]
    /\ limiters = [u \in Users |-> NoLimiter]
    /\ ipTick = FALSE
    /\ userTick = FALSE

\* where a schema request is: not arrived, holding the rows of the tables
\* query, waiting for a connection for a columns query, running a columns
\* query, returned
SchemaStages == {"new", "tables", "waiting", "columns", "done"}

PoolOff == schemaReqs = [s \in SchemaStages |-> 0]

NoDBPool == 0

PostgresOff ==
    /\ dbPools = <<>>
    /\ dbPool = NoDBPool
    /\ dbmu = Free
    /\ hcpc = "off"
    /\ dcpc = "off"
    /\ dbCloses = 0
    /\ dbq = "none"

\* the specifications outside the connection broker, not running
ExtrasOff == CryptoOff /\ RateOff /\ PoolOff /\ PostgresOff

\* the broker with no configuration, no cached connection and no request,
\* and no playground request
BrokerOff ==
    /\ activeType = [u \in Users |-> NoType]
    /\ totalConnections = [u \in Users |-> 0]
    /\ rows = [u \in Users |-> [t \in ConnTypes |-> NoRow]]
    /\ userResources = {}
    /\ userDBPools = [u \in Users |-> NoPool]
    /\ userSSHTunnels = [u \in Users |-> NoTunnel]
    /\ pools = <<>>
    /\ tunnels = <<>>
    /\ mu = Free
    /\ pc = [p \in Procs |-> "idle"]
    /\ loc = [p \in Procs |-> IdleLoc]

Init ==
    /\ activeType = [u \in Users |-> NoType]
    /\ totalConnections = [u \in Users |-> 0]
    /\ rows = [u \in Users |-> [t \in ConnTypes |-> NoRow]]
    /\ userResources = {}
    /\ userDBPools = [u \in Users |-> NoPool]
    /\ userSSHTunnels = [u \in Users |-> NoTunnel]
    /\ pools = <<>>
    /\ tunnels = <<>>
    /\ mu = Free
    /\ pc = [p \in Procs |-> "idle"]
    /\ loc = [p \in Procs |-> IdleLoc]
    /\ qsql = <<>>
    /\ qpc = "off"
    /\ qcalls = {}
    /\ qopt = NoOptions
    /\ qsent = <<>>
    /\ qconns = 0
    /\ qlog = "none"
    /\ TunnelInit
    /\ SchemaOff
    /\ ExtrasOff

\* The SQL texts the broker's requests carry (SpecQuery explores the text itself)
BrokerSQL == { <<"S","E","L","E","C","T"," ","1">>, <<"d","r","o","p"," ","t">> }

\* ExecuteQuery up to the cache lookup of GetUserDatabaseConnection
ExecuteQuery(p) ==
    /\ pc[p] = "idle"
    /\ \E u \in Users, sql \in BrokerSQL :
        IF isDangerousQuery(sql)
        THEN UNCHANGED <<pc, loc>>                 \* 400, nothing was touched
        ELSE /\ mu = Free
             /\ pc' = [pc EXCEPT ![p] =
                          IF userDBPools[u] # NoPool THEN "exec_query" ELSE "get_cfg"]
             /\ loc' = [loc EXCEPT ![p] =
                          [IdleLoc EXCEPT !.op = "exec", !.usr = u,
                                          !.pool = userDBPools[u]]]
    /\ UNCHANGED <<dbvars, cachevars, sidevars>>

\* getUserDatabaseConfig: the first query, users.active_connection_type
GetUserDatabaseConfig(p) ==
    /\ pc[p] = "get_cfg"
    /\ IF activeType[loc[p].usr] = NoType
       THEN Return(p)
       ELSE /\ pc' = [pc EXCEPT ![p] = "get_load"]
            /\ loc' = [loc EXCEPT ![p].ctype = activeType[loc[p].usr],
                                  \* until the row is loaded, ver keeps the
                                  \* total_connections this read belongs to
                                  ![p].ver = IF loc[p].op = "exec"
                                             THEN totalConnections[loc[p].usr] ELSE 0]
    /\ UNCHANGED <<dbvars, cachevars, sidevars>>

\* a load that takes the table from users.active_connection_type as it is now
RowOfActiveType(u, t) == rows[u][activeType[u]]

\* the switch of getUserDatabaseConfig: the table of the type it has read
RowOf(u, t) == rows[u][t]

\* loadDatabaseConfig / loadSSHConfig / loadWireguardConfig: the second query,
\* the row of the chosen table WHERE is_active = true
LoadConfig(p) ==
    /\ pc[p] = "get_load"
    /\ LET row == RowOf(loc[p].usr, loc[p].ctype)
       IN  IF row.ver # 0 /\ row.active
           THEN /\ pc' = [pc EXCEPT ![p] = "connect"]
                /\ loc' = [loc EXCEPT ![p].ver = IF loc[p].op = "exec" THEN row.ver ELSE 0,
                                      ![p].usr = IF loc[p].op = "exec" THEN @ ELSE ""]
           ELSE Return(p)
    /\ UNCHANGED <<dbvars, cachevars, sidevars>>

\* createUserConnection ends in one of: NewSSHTunnel failed; ParseConfig or
\* NewWithConfig failed; Ping failed; the pool is built and pinged
Outcomes == {"tunnel_error", "pool_error", "ping_error", "ok"}

\* an ssh configuration builds a tunnel unless NewSSHTunnel fails
BuildsTunnel(ctype, outcome) == ctype = "ssh" /\ outcome # "tunnel_error"

\* NewWithConfig returned a pool
BuildsPool(outcome) == outcome \in {"ping_error", "ok"}

\* an error path of createUserConnection that forgets the tunnel when Ping fails
ClosesTunnelExceptPing(outcome) == outcome \notin {"ok", "ping_error"}

\* every error return after the tunnel was built runs sshTunnel.Close()
ClosesTunnel(outcome) == outcome # "ok"

\* createUserConnection, as called by GetUserDatabaseConnection and by the two
\* connection tests
CreateUserConnection(p) ==
    /\ pc[p] = "connect"
    /\ \E outcome \in Outcomes :
        LET l  == loc[p]
            bt == BuildsTunnel(l.ctype, outcome)
            bp == BuildsPool(outcome)
            t  == IF bt THEN Len(tunnels) + 1 ELSE NoTunnel
        IN  /\ outcome = "tunnel_error" => l.ctype = "ssh"
            /\ bt => Len(tunnels) < MaxTunnels
            /\ bp => Len(pools) < MaxPools
            /\ tunnels' = IF bt
                          THEN Append(tunnels, [port |-> LocalPort,
                                                closed |-> ClosesTunnel(outcome)])
                          ELSE tunnels
            /\ pools' = IF bp
                        THEN Append(pools, IF outcome = "ok"
                                      THEN [owner |-> l.usr, ver |-> l.ver, tunnel |-> t,
                                            state |-> "open", pinged |-> TRUE, inUse |-> 0]
                                           \* (a test's pool: owner "", ver 0)
                                      ELSE ClosedPool([pinged |-> FALSE, inUse |-> 0]))
                        ELSE pools
            /\ IF outcome = "ok"
               THEN /\ pc' = [pc EXCEPT ![p] = IF l.op = "exec" THEN "get_store" ELSE "test_ping"]
                    /\ loc' = [loc EXCEPT ![p].tun = t, ![p].pool = Len(pools) + 1,
                                         ![p].ctype = NoType, ![p].ver = 0]
               ELSE Return(p)
    /\ UNCHANGED <<dbvars, userDBPools, userSSHTunnels, mu, sidevars>>

\* GetUserDatabaseConnection, the write-locked store of the pool and the tunnel
StoreConnection(p) ==
    /\ pc[p] = "get_store"
    /\ mu = Free
    /\ userDBPools' = [userDBPools EXCEPT ![loc[p].usr] = loc[p].pool]
    /\ userSSHTunnels' = IF loc[p].tun # NoTunnel
                         THEN [userSSHTunnels EXCEPT ![loc[p].usr] = loc[p].tun]
                         ELSE userSSHTunnels
    /\ pc' = [pc EXCEPT ![p] = "exec_query"]
    /\ loc' = [loc EXCEPT ![p].tun = NoTunnel]
    /\ UNCHANGED <<dbvars, pools, tunnels, mu, sidevars>>

\* executeSQL: pool.Query acquires a connection of the pool it was handed
PoolQuery(p) ==
    /\ pc[p] = "exec_query"
    /\ IF pools[loc[p].pool].state = "open"
       THEN /\ pools' = [pools EXCEPT ![loc[p].pool].inUse = @ + 1]
            /\ pc' = [pc EXCEPT ![p] = "exec_rows"]
            /\ UNCHANGED loc
       ELSE /\ Return(p)                                    \* closed pool
            /\ UNCHANGED pools
    /\ UNCHANGED <<dbvars, userDBPools, userSSHTunnels, tunnels, mu, sidevars>>

\* the connection under a running query is gone: its pool or its tunnel was closed
QueryCut(p) ==
    LET pl == pools[loc[p].pool]
    IN  \/ pl.state = "closed"
        \/ pl.tunnel # NoTunnel /\ tunnels[pl.tunnel].closed

\* executeSQL: the rows are read (or the query fails, or its deadline passes)
\* and rows.Close releases the connection
QueryDone(p) ==
    /\ pc[p] = "exec_rows"
    /\ pools' = [pools EXCEPT ![loc[p].pool].inUse = @ - 1]
    /\ Return(p)
    /\ UNCHANGED <<dbvars, userDBPools, userSSHTunnels, tunnels, mu, sidevars>>

\* saveDatabaseConfig / saveSSHConfig / saveWireguardConfig: the upsert of the
\* row of table t with is_active = true; no other table is written
SaveConfig(u, t, v) == [rows EXCEPT ![u][t] = [ver |-> v, active |-> TRUE]]

\* CreateDatabaseConfig up to the commit of its transaction: the row of the
\* chosen table, then updateUserConnectionFlags (active_connection_type and
\* total_connections + 1). The saved configuration is stamped with the new
\* total_connections.
CreateDatabaseConfig(p) ==
    /\ pc[p] = "idle"
    /\ SumOver(totalConnections, Users) < MaxConfigs
    /\ \E u \in Users, t \in ConnTypes :
        LET v == totalConnections[u] + 1
        IN  /\ rows' = SaveConfig(u, t, v)
            /\ activeType' = [activeType EXCEPT ![u] = t]
            /\ totalConnections' = [totalConnections EXCEPT ![u] = v]
            /\ loc' = [loc EXCEPT ![p] = [IdleLoc EXCEPT !.op = "create", !.usr = u,
                                                         !.ver = v]]
            /\ pc' = [pc EXCEPT ![p] = "close_lock"]
    /\ UNCHANGED <<userResources, cachevars, sidevars>>

\* DeleteDatabaseConfig up to its DELETE FROM user_resources; ver keeps the
\* user's total_connections at the call
DeleteDatabaseConfig(p) ==
    /\ pc[p] = "idle"
    /\ \E u \in Users :
        /\ userResources' = userResources \ {u}
        /\ loc' = [loc EXCEPT ![p] = [IdleLoc EXCEPT !.op = "delete", !.usr = u,
                                                     !.ver = totalConnections[u]]]
    /\ pc' = [pc EXCEPT ![p] = "close_lock"]
    /\ UNCHANGED <<activeType, totalConnections, rows, cachevars, sidevars>>

\* a close that leaves the closed pool and tunnel in the maps
FinishCloseKeepsEntry(p) ==
    LET u == loc[p].usr
    IN  /\ pools' = ClosePool(pools, userDBPools[u])
        /\ tunnels' = CloseTunnel(tunnels, userSSHTunnels[u])
        /\ mu' = Free
        /\ Return(p)
        /\ UNCHANGED <<userDBPools, userSSHTunnels>>

\* the end of closeExistingUserConnection: the pool is closed and deleted, the
\* tunnel is closed and deleted, h.mu is released and the handler answers 200
FinishClose(p) ==
    LET u   == loc[p].usr
        pid == userDBPools[u]
    IN  /\ pools' = ClosePool(pools, pid)
        /\ userDBPools' = [userDBPools EXCEPT ![u] = NoPool]
        /\ tunnels' = CloseTunnel(tunnels, userSSHTunnels[u])
        /\ userSSHTunnels' = [userSSHTunnels EXCEPT ![u] = NoTunnel]
        /\ mu' = Free
        /\ Return(p)

\* closeExistingUserConnection: h.mu.Lock, then pool.Close, which waits for the
\* connections in use
CloseExistingUserConnection(p) ==
    /\ pc[p] = "close_lock"
    /\ mu = Free
    /\ LET pid == userDBPools[loc[p].usr]
       IN  IF pid # NoPool /\ ~PoolCloseReady(pid)
           THEN /\ pools' = [pools EXCEPT ![pid].state = "closing"]
                /\ mu' = p
                /\ pc' = [pc EXCEPT ![p] = "close_wait"]
                /\ UNCHANGED <<userDBPools, userSSHTunnels, tunnels, loc>>
           ELSE FinishClose(p)
    /\ UNCHANGED <<dbvars, sidevars>>

CloseWait(p) ==
    /\ pc[p] = "close_wait"
    /\ PoolCloseReady(userDBPools[loc[p].usr])
    /\ FinishClose(p)
    /\ UNCHANGED <<dbvars, sidevars>>

\* CleanupUserConnections: h.mu.Lock
CleanupUserConnections(p) ==
    /\ pc[p] = "idle"
    /\ mu = Free
    /\ mu' = p
    /\ pc' = [pc EXCEPT ![p] = "cleanup"]
    /\ loc' = [loc EXCEPT ![p] = [IdleLoc EXCEPT !.op = "cleanup"]]
    /\ UNCHANGED <<dbvars, userDBPools, userSSHTunnels, pools, tunnels, sidevars>>

\* CleanupUserConnections, the pool loop: one cached pool, in map order, is
\* closed (waiting for its connections in use) and deleted
CleanupPool(p) ==
    /\ pc[p] = "cleanup"
    /\ \E u \in Users :
        LET pid == userDBPools[u]
        IN  /\ pid # NoPool
            /\ loc[p].usr \in {"", u}
            /\ IF PoolCloseReady(pid)
               THEN /\ pools' = ClosePool(pools, pid)
                    /\ userDBPools' = [userDBPools EXCEPT ![u] = NoPool]
                    /\ loc' = [loc EXCEPT ![p].usr = ""]
               ELSE /\ pools[pid].state = "open"
                    /\ pools' = [pools EXCEPT ![pid].state = "closing"]
                    /\ loc' = [loc EXCEPT ![p].usr = u]
                    /\ UNCHANGED userDBPools
    /\ UNCHANGED <<dbvars, userSSHTunnels, tunnels, mu, pc, sidevars>>

\* CleanupUserConnections, the tunnel loop and the unlock
CleanupTunnels(p) ==
    /\ pc[p] = "cleanup"
    /\ \A u \in Users : userDBPools[u] = NoPool
    /\ tunnels' = [t \in 1..Len(tunnels) |->
                     IF \E u \in Users : userSSHTunnels[u] = t
                     THEN [tunnels[t] EXCEPT !.closed = TRUE] ELSE tunnels[t]]
    /\ userSSHTunnels' = [u \in Users |-> NoTunnel]
    /\ mu' = Free
    /\ Return(p)
    /\ UNCHANGED <<dbvars, userDBPools, pools, sidevars>>

\* TestDatabaseURL: the configuration of the request body, never saved; past
\* the access check the user id goes to the log only
TestDatabaseURL(p) ==
    /\ pc[p] = "idle"
    /\ \E t \in ConnTypes :
        loc' = [loc EXCEPT ![p] = [IdleLoc EXCEPT !.op = "testurl", !.ctype = t]]
    /\ pc' = [pc EXCEPT ![p] = "connect"]
    /\ UNCHANGED <<dbvars, cachevars, sidevars>>

\* TestDatabaseConnection: the saved configuration, through getUserDatabaseConfig
TestDatabaseConnection(p) ==
    /\ pc[p] = "idle"
    /\ \E u \in Users :
        loc' = [loc EXCEPT ![p] = [IdleLoc EXCEPT !.op = "testconn", !.usr = u]]
    /\ pc' = [pc EXCEPT ![p] = "get_cfg"]
    /\ UNCHANGED <<dbvars, cachevars, sidevars>>

\* the tests' pool.Ping and their deferred pool.Close / sshTunnel.Close
TestPing(p) ==
    /\ pc[p] = "test_ping"
    /\ pools' = ClosePool(pools, loc[p].pool)
    /\ tunnels' = CloseTunnel(tunnels, loc[p].tun)
    /\ Return(p)
    /\ UNCHANGED <<dbvars, userDBPools, userSSHTunnels, mu, sidevars>>

Next ==
    \E p \in Procs :
        \/ ExecuteQuery(p)
        \/ GetUserDatabaseConfig(p)
        \/ LoadConfig(p)
        \/ CreateUserConnection(p)
        \/ StoreConnection(p)
        \/ PoolQuery(p)
        \/ QueryDone(p)
        \/ CreateDatabaseConfig(p)
        \/ DeleteDatabaseConfig(p)
        \/ CloseExistingUserConnection(p)
        \/ CloseWait(p)
        \/ CleanupUserConnections(p)
        \/ CleanupPool(p)
        \/ CleanupTunnels(p)
        \/ TestDatabaseURL(p)
        \/ TestDatabaseConnection(p)
        \/ TestPing(p)

Spec == Init /\ [][Next]_vars

\* --------------------------------------------- ExecuteQuery over SQL text
\* The pieces a request's SQL text is put together from
Tokens == {
    <<"D","R","O","P">>,
    <<"d","r","o","p">>,
    <<"U","p","d","a","t","e">>,
    <<"S","E","L","E","C","T">>,
    <<"T","A","B","L","E"," ","t">>,
    <<" ","l","i","m","i","t","s">>,
    <<" ","L","I","M","I","T"," ","5">>,
    <<" ">>,
    <<"\t">>,
    <<"\n">> }

RECURSIVE TextsOf(_)
TextsOf(n) ==
    IF n = 0 THEN {<<>>}
    ELSE LET shorter == TextsOf(n - 1)
         IN  shorter \cup {s \o t : s \in shorter, t \in Tokens}

\* options.limit of the requests (0: not set)
Limits == {0, 5}

\* ExecuteQuery: req.Options.Limit when the request sets none
DefaultLimit == 1000

\* fmt.Sprintf("%d", n) for n >= 0
Digits == <<"0", "1", "2", "3", "4", "5", "6", "7", "8", "9">>

RECURSIVE Itoa(_)
Itoa(n) == IF n < 10 THEN <<Digits[n + 1]>> ELSE Itoa(n \div 10) \o <<Digits[(n % 10) + 1]>>

ExplainPrefix ==
    <<"E","X","P","L","A","I","N"," ","(","F","O","R","M","A","T"," ","J","S","O","N",
      ","," ","A","N","A","L","Y","Z","E"," ","t","r","u","e",")"," ">>

\* executeSQL: the statement it hands to pool.Query for a request
Statement(sql, opt) ==
    LET limit    == IF opt.limit = 0 THEN DefaultLimit ELSE opt.limit
        trimmed  == TrimSpace(sql)
        explained == IF opt.explain THEN ExplainPrefix \o trimmed ELSE trimmed
    IN  IF /\ HasPrefix(ToUpper(explained), <<"S","E","L","E","C","T">>)
           /\ ~Contains(ToUpper(explained), <<"L","I","M","I","T">>)
        THEN explained \o <<" ","L","I","M","I","T"," ">> \o Itoa(limit)
        ELSE explained

\* a rows.Close that the deadline's error return skips
ReleasesConnUnlessTimeout(outcome) == outcome # "timeout"

\* rows.Close is deferred in executeSQL: it runs however parseQueryResult ends
ReleasesConn(outcome) == TRUE

\* a usage record started before the error of executeSQL is looked at
LogsUsageAlways(stage) == TRUE

\* go h.logQueryExecution is reached past the error return of executeSQL only
LogsUsage(stage) == stage = "result"

QInit ==
    /\ activeType = [u \in Users |-> NoType]
    /\ totalConnections = [u \in Users |-> 0]
    /\ rows = [u \in Users |-> [t \in ConnTypes |-> NoRow]]
    /\ userResources = {}
    /\ userDBPools = [u \in Users |-> NoPool]
    /\ userSSHTunnels = [u \in Users |-> NoTunnel]
    /\ pools = <<>>
    /\ tunnels = <<>>
    /\ mu = Free
    /\ pc = [p \in Procs |-> "idle"]
    /\ loc = [p \in Procs |-> IdleLoc]
    /\ qsql \in TextsOf(MaxTokens)
    /\ qopt \in [limit : Limits, explain : BOOLEAN, dryRun : BOOLEAN]
    /\ qpc = "recv"
    /\ qcalls = {}
    /\ qsent = <<>>
    /\ qconns = 0
    /\ qlog = "none"
    /\ TunnelInit
    /\ SchemaOff
    /\ ExtrasOff

\* ExecuteQuery: the empty-SQL check and isDangerousQuery
QValidate ==
    /\ qpc = "recv"
    /\ qpc' = IF qsql = <<>> \/ isDangerousQuery(qsql) THEN "rejected" ELSE "connect"
    /\ UNCHANGED <<qsql, qcalls, qopt, qsent, qconns, qlog, nonqueryvars>>

\* ExecuteQuery: GetUserDatabaseConnection, which answers a pool or an error
QGetConnection ==
    /\ qpc = "connect"
    /\ qcalls' = qcalls \cup {"GetUserDatabaseConnection"}
    /\ \E ok \in BOOLEAN : qpc' = IF ok THEN "execute" ELSE "failed"
    /\ UNCHANGED <<qsql, qopt, qsent, qconns, qlog, nonqueryvars>>

\* executeSQL: the statement is built and handed to pool.Query, which answers
\* an error (no connection stays acquired) or rows holding a connection
QExecuteSQL ==
    /\ qpc = "execute"
    /\ qcalls' = qcalls \cup {"pool.Query"}
    /\ qsent' = Statement(qsql, qopt)
    /\ \E acquired \in BOOLEAN :
          /\ qpc' = IF acquired THEN "rows" ELSE "query_error"
          /\ qconns' = IF acquired THEN qconns + 1 ELSE qconns
    /\ UNCHANGED <<qsql, qopt, qlog, nonqueryvars>>

\* parseQueryResult and the deferred rows.Close: the rows are read, a row
\* fails to scan, or the deadline of options.timeout passes
QParseResult ==
    /\ qpc = "rows"
    /\ \E outcome \in {"ok", "row_error", "timeout"} :
          /\ qconns' = IF ReleasesConn(outcome) THEN qconns - 1 ELSE qconns
          /\ qpc' = CASE outcome = "ok" -> "result"
                      [] outcome = "row_error" -> "query_error"
                      [] outcome = "timeout" -> "timed_out"
    /\ UNCHANGED <<qsql, qcalls, qopt, qsent, qlog, nonqueryvars>>

\* ExecuteQuery past executeSQL: 400 on its error; else the usage record is
\* handed to a goroutine of its own and 200 is written
QRespond ==
    /\ qpc \in {"result", "query_error", "timed_out"}
    /\ qlog' = IF LogsUsage(qpc) THEN "started" ELSE qlog
    /\ qpc' = IF qpc = "result" THEN "ok200" ELSE "error400"
    /\ UNCHANGED <<qsql, qcalls, qopt, qsent, qconns, nonqueryvars>>

\* logQueryExecution: the INSERT INTO metrics, whose error is dropped
QLogWrite ==
    /\ qlog = "started"
    /\ \E written \in BOOLEAN : qlog' = IF written THEN "written" ELSE "failed"
    /\ UNCHANGED <<qsql, qpc, qcalls, qopt, qsent, qconns, nonqueryvars>>

QNext ==
    \/ QValidate
    \/ QGetConnection
    \/ QExecuteSQL
    \/ QParseResult
    \/ QRespond
    \/ QLogWrite

SpecQuery == QInit /\ [][QNext]_vars

\* ------------------------------------------------------- the SSH tunnel
\* handleTunnel: net.Listen on the local address; on an error it logs and ends
HandleTunnelListen ==
    /\ hpc = "listen"
    /\ \E ok \in BOOLEAN :
          /\ listener' = IF ok THEN "listening" ELSE "failed"
          /\ hpc' = IF ok THEN "check" ELSE "exited"
    /\ UNCHANGED <<sshTunnel, sshClient, tmu, kpc, cpc, accepted, closeReturns, panicked,
                   nontunnelvars>>

\* handleTunnel, the head of its loop under tunnel.mu.RLock: it ends (the
\* deferred listener.Close runs) when closed is set, sleeps while client is
\* nil, and goes on to Accept otherwise
HandleTunnelCheck ==
    /\ hpc = "check"
    /\ tmu = Free
    /\ IF sshTunnel.closed
       THEN hpc' = "exited" /\ listener' = "closed"
       ELSE /\ hpc' = IF sshTunnel.client = "nil" THEN "check" ELSE "accept"
            /\ UNCHANGED listener
    /\ UNCHANGED <<sshTunnel, sshClient, tmu, kpc, cpc, accepted, closeReturns, panicked,
                   nontunnelvars>>

\* handleTunnel: a connection arrives at the local port, listener.Accept
\* returns it and handleConnection is started for it
HandleTunnelAccept ==
    /\ hpc = "accept"
    /\ accepted < MaxAccepts
    /\ accepted' = accepted + 1
    /\ hpc' = "check"
    /\ UNCHANGED <<sshTunnel, sshClient, tmu, listener, kpc, cpc, closeReturns, panicked,
                   nontunnelvars>>

\* healthCheck at a tick of its ticker, under tunnel.mu.RLock: it ends when
\* closed is set and skips the tick while client is nil
HealthCheckTick ==
    /\ kpc = "wait"
    /\ tmu = Free
    /\ kpc' = IF sshTunnel.closed THEN "exited"
              ELSE IF sshTunnel.client = "nil" THEN "wait" ELSE "send"
    /\ UNCHANGED <<sshTunnel, sshClient, tmu, listener, hpc, cpc, accepted,
                   closeReturns, panicked, nontunnelvars>>

\* healthCheck: the keepalive request on the client it has read; an error is
\* logged only
HealthCheckSend ==
    /\ kpc = "send"
    /\ kpc' = "wait"
    /\ UNCHANGED <<sshTunnel, sshClient, tmu, listener, hpc, cpc, accepted,
                   closeReturns, panicked, nontunnelvars>>

\* Close: tunnel.mu.Lock
CloseLock(c) ==
    /\ cpc[c] = "idle"
    /\ closeReturns + Cardinality({d \in Closers : cpc[d] = "locked"}) < MaxCloses
    /\ tmu = Free
    /\ tmu' = c
    /\ cpc' = [cpc EXCEPT ![c] = "locked"]
    /\ UNCHANGED <<sshTunnel, sshClient, listener, hpc, kpc, accepted, closeReturns,
                   panicked, nontunnelvars>>

\* a Close that closes the client without looking at it
ClientPresentAlways(client) == TRUE

\* Close: if tunnel.client != nil
ClientPresent(client) == client # "nil"

\* Close under the lock: closed is set, the client is closed and forgotten,
\* the deferred Unlock runs. client.Close() on a nil client is a nil
\* dereference.
CloseBody(c) ==
    /\ cpc[c] = "locked"
    /\ IF ClientPresent(sshTunnel.client)
       THEN /\ sshTunnel' = [client |-> "nil", closed |-> TRUE]
            /\ sshClient' = "closed"
            /\ panicked' = (panicked \/ sshTunnel.client = "nil")
       ELSE /\ sshTunnel' = [sshTunnel EXCEPT !.closed = TRUE]
            /\ UNCHANGED <<sshClient, panicked>>
    /\ tmu' = Free
    /\ cpc' = [cpc EXCEPT ![c] = "idle"]
    /\ closeReturns' = closeReturns + 1
    /\ UNCHANGED <<listener, hpc, kpc, accepted, nontunnelvars>>

TNext ==
    \/ HandleTunnelListen
    \/ HandleTunnelCheck
    \/ HandleTunnelAccept
    \/ HealthCheckTick
    \/ HealthCheckSend
    \/ \E c \in Closers : CloseLock(c) \/ CloseBody(c)

SpecTunnel == Init /\ [][TNext]_vars

\* ------------------------------------------------- getDatabaseSchema
\* n_tup_ins + n_tup_upd + n_tup_del of a table, 0 where it has no statistics
TupleCounts == {0, 3}

SInit ==
    /\ activeType = [u \in Users |-> NoType]
    /\ totalConnections = [u \in Users |-> 0]
    /\ rows = [u \in Users |-> [t \in ConnTypes |-> NoRow]]
    /\ userResources = {}
    /\ userDBPools = [u \in Users |-> NoPool]
    /\ userSSHTunnels = [u \in Users |-> NoTunnel]
    /\ pools = <<>>
    /\ tunnels = <<>>
    /\ mu = Free
    /\ pc = [p \in Procs |-> "idle"]
    /\ loc = [p \in Procs |-> IdleLoc]
    /\ qsql = <<>>
    /\ qpc = "off"
    /\ qcalls = {}
    /\ qopt = NoOptions
    /\ qsent = <<>>
    /\ qconns = 0
    /\ qlog = "none"
    /\ TunnelInit
    /\ \E n \in 0..MaxTables, m \in 0..MaxViews :
          senv \in [nTables : {n}, nViews : {m},
                    statsReadable : BOOLEAN, viewsOk : BOOLEAN,
                    counts : [1..n -> TupleCounts],
                    tableColsFail : SUBSET (1..n),
                    viewColsFail : SUBSET (1..m)]
    /\ spc = "tables"
    /\ si = 0
    /\ schema = EmptySchema
    /\ ExtrasOff

\* the tables query joins pg_stat_user_tables: it fails as a whole when that
\* cannot be read
TablesQueryOk(env) == env.statsReadable

\* getDatabaseSchema: pool.Query(tablesQuery). Its failure comes back as the
\* error of Query (the call fails) or only as rows.Err, which is never read
\* (the loop sees no row)
SchemaTablesQuery ==
    /\ spc = "tables"
    /\ IF TablesQueryOk(senv)
       THEN spc' = "table_rows" /\ UNCHANGED schema
       ELSE \E eager \in BOOLEAN :
               IF eager
               THEN spc' = "done" /\ schema' = [schema EXCEPT !.err = TRUE]
               ELSE spc' = "views" /\ UNCHANGED schema
    /\ UNCHANGED <<senv, si, nonschemavars>>

\* a table that requires its columns to be kept
KeepsTableWithColumns(colsOk) == colsOk

\* the table is appended whether getTableColumns failed or not
KeepsTable(colsOk) == TRUE

\* getTableColumns: the columns, or nil with an error
Columns(failed) == IF failed THEN "nil" ELSE "columns"

\* getDatabaseSchema, one pass of the table loop
SchemaTableRow ==
    /\ spc = "table_rows"
    /\ si < senv.nTables
    /\ LET i     == si + 1
           table == [name |-> i, rowCount |-> senv.counts[i],
                     columns |-> Columns(i \in senv.tableColsFail)]
       IN  schema' = IF KeepsTable(i \notin senv.tableColsFail)
                     THEN [schema EXCEPT !.tables = Append(@, table)]
                     ELSE schema
    /\ si' = si + 1
    /\ UNCHANGED <<senv, spc, nonschemavars>>

\* rows.Next answers false: the table loop ends
SchemaTablesEnd ==
    /\ spc = "table_rows"
    /\ si = senv.nTables
    /\ spc' = "views"
    /\ si' = 0
    /\ UNCHANGED <<senv, schema, nonschemavars>>

\* getDatabaseSchema: pool.Query(viewsQuery); on its error the views are
\* skipped and the schema is returned
SchemaViewsQuery ==
    /\ spc = "views"
    /\ spc' = IF senv.viewsOk THEN "view_rows" ELSE "done"
    /\ UNCHANGED <<senv, si, schema, nonschemavars>>

\* getDatabaseSchema, one pass of the view loop
SchemaViewRow ==
    /\ spc = "view_rows"
    /\ si < senv.nViews
    /\ LET j    == si + 1
           view == [name |-> j, columns |-> Columns(j \in senv.viewColsFail)]
       IN  schema' = [schema EXCEPT !.views = Append(@, view)]
    /\ si' = si + 1
    /\ UNCHANGED <<senv, spc, nonschemavars>>

\* the view loop ends: return schema, nil
SchemaReturn ==
    /\ spc = "view_rows"
    /\ si = senv.nViews
    /\ spc' = "done"
    /\ UNCHANGED <<senv, si, schema, nonschemavars>>

SNext ==
    \/ SchemaTablesQuery
    \/ SchemaTableRow
    \/ SchemaTablesEnd
    \/ SchemaViewsQuery
    \/ SchemaViewRow
    \/ SchemaReturn

SpecSchema == SInit /\ [][SNext]_vars

\* ------------------------------------------------------ ConfigEncryption
MaxPlain == 2       \* bytes of a plaintext handed to EncryptConfig

NonceSize == 12
TagSize == 16
\* the padding character '=' of base64.StdEncoding; 0..63 are its alphabet
Pad == 64

PlainBytes == {0, 255}
Plaintexts == UNION {[1..n -> PlainBytes] : n \in 0..MaxPlain}
\* what rand.Reader may fill the nonce with
Nonces == {[i \in 1..NonceSize |-> b] : b \in {0, 7}}

\* ce.masterKey, one symbol for its 32 bytes
MasterKey == <<"K">>
UserIDList == << <<"u", "1">>, <<"u", "1", ":", "s", "s", "h">> >>
ConfigTypeList == << <<"p","o","s","t","g","r","e","s","q","l">>,
                     <<"s","s","h">>,
                     <<"w","i","r","e","g","u","a","r","d">> >>
UserIDs == {UserIDList[i] : i \in 1..Len(UserIDList)}
ConfigTypes == {ConfigTypeList[i] : i \in 1..Len(ConfigTypeList)}

\* deriveUserKey: sha256 of "masterKey:userID:configType"; the digest is
\* represented by the string it was computed from, so that two keys are equal
\* exactly when the formatted strings are
deriveUserKey(userID, configType) ==
    MasterKey \o <<":">> \o userID \o <<":">> \o configType

\* a byte that stands for the key inside the cipher: the same byte for two
\* keys exactly when the keys are equal
KeyList ==
    [n \in 1..(Len(UserIDList) * Len(ConfigTypeList)) |->
        deriveUserKey(UserIDList[((n - 1) \div Len(ConfigTypeList)) + 1],
                      ConfigTypeList[((n - 1) % Len(ConfigTypeList)) + 1])]
KeyByte(key) == 100 + CHOOSE n \in 1..Len(KeyList) : KeyList[n] = key

\* the counter-mode key stream of AES-GCM
KeyStream(key, nonce, i) == (KeyByte(key) + nonce[1] + i) % 256

\* the authentication tag: a value that is different for every different
\* (key, nonce, ciphertext body)
Tag(key, nonce, body) ==
    <<KeyByte(key), Len(body),
      IF Len(body) >= 1 THEN body[1] ELSE 0,
      IF Len(body) >= 2 THEN body[2] ELSE 0>> \o nonce

\* gcm.Seal(nonce, nonce, data, nil): nonce, encrypted data, tag
Seal(key, nonce, data) ==
    LET body == [i \in 1..Len(data) |-> (data[i] + KeyStream(key, nonce, i)) % 256]
    IN nonce \o body \o Tag(key, nonce, body)

\* gcm.Open(nil, nonce, ciphertext, nil)
Open(key, nonce, ciphertext) ==
    IF Len(ciphertext) < TagSize
    THEN [err |-> TRUE, plaintext |-> <<>>]
    ELSE LET n == Len(ciphertext) - TagSize
             body == SubSeq(ciphertext, 1, n)
             tag == SubSeq(ciphertext, n + 1, Len(ciphertext))
         IN IF tag # Tag(key, nonce, body)
            THEN [err |-> TRUE, plaintext |-> <<>>]
            ELSE [err |-> FALSE,
                  plaintext |-> [i \in 1..n |->
                                   (body[i] + 256 - KeyStream(key, nonce, i)) % 256]]

\* base64.StdEncoding.EncodeToString
RECURSIVE EncodeToString(_)
EncodeToString(src) ==
    IF Len(src) = 0 THEN <<>>
    ELSE IF Len(src) = 1
    THEN <<src[1] \div 4, (src[1] % 4) * 16, Pad, Pad>>
    ELSE IF Len(src) = 2
    THEN <<src[1] \div 4, (src[1] % 4) * 16 + src[2] \div 16, (src[2] % 16) * 4, Pad>>
    ELSE <<src[1] \div 4, (src[1] % 4) * 16 + src[2] \div 16,
           (src[2] % 16) * 4 + src[3] \div 64, src[3] % 64>>
         \o EncodeToString(SubSeq(src, 4, Len(src)))

\* base64.StdEncoding.DecodeString: padding is required, nothing may follow
\* it, and the bits of the last character that belong to no byte are ignored
\* (the encoding is not Strict())
RECURSIVE DecodeString(_)
DecodeString(s) ==
    IF Len(s) = 0 THEN [err |-> FALSE, bytes |-> <<>>]
    ELSE IF Len(s) < 4 \/ s[1] = Pad \/ s[2] = Pad
    THEN [err |-> TRUE, bytes |-> <<>>]
    ELSE IF s[3] = Pad
    THEN IF Len(s) = 4 /\ s[4] = Pad
         THEN [err |-> FALSE, bytes |-> <<s[1] * 4 + s[2] \div 16>>]
         ELSE [err |-> TRUE, bytes |-> <<>>]
    ELSE IF s[4] = Pad
    THEN IF Len(s) = 4
         THEN [err |-> FALSE,
               bytes |-> <<s[1] * 4 + s[2] \div 16, (s[2] % 16) * 16 + s[3] \div 4>>]
         ELSE [err |-> TRUE, bytes |-> <<>>]
    ELSE LET rest == DecodeString(SubSeq(s, 5, Len(s)))
         IN IF rest.err
            THEN [err |-> TRUE, bytes |-> <<>>]
            ELSE [err |-> FALSE,
                  bytes |-> <<s[1] * 4 + s[2] \div 16,
                              (s[2] % 16) * 16 + s[3] \div 4,
                              (s[3] % 4) * 64 + s[4]>> \o rest.bytes]

EncryptConfig(userID, configType, data, nonce) ==
    EncodeToString(Seal(deriveUserKey(userID, configType), nonce, data))

TooShortOrEmpty(ciphertext) == Len(ciphertext) <= NonceSize + TagSize

\* DecryptConfig: the length check before the nonce is cut off
TooShort(ciphertext) == Len(ciphertext) < NonceSize

DecryptConfig(userID, configType, encryptedData) ==
    LET decoded == DecodeString(encryptedData)
    IN IF decoded.err \/ TooShort(decoded.bytes)
       THEN [err |-> TRUE, plaintext |-> <<>>]
       ELSE Open(deriveUserKey(userID, configType),
                 SubSeq(decoded.bytes, 1, NonceSize),
                 SubSeq(decoded.bytes, NonceSize + 1, Len(decoded.bytes)))

QueryOff ==
    /\ qsql = <<>>
    /\ qpc = "off"
    /\ qcalls = {}
    /\ qopt = NoOptions
    /\ qsent = <<>>
    /\ qconns = 0
    /\ qlog = "none"

CInit ==
    /\ BrokerOff /\ QueryOff /\ TunnelInit /\ SchemaOff /\ RateOff /\ PoolOff
    /\ PostgresOff
    /\ encReq \in [userID : UserIDs, configType : ConfigTypes,
                   data : Plaintexts, nonce : Nonces]
    /\ stored = <<>>
    /\ decReq = [userID |-> <<>>, configType |-> <<>>]
    /\ decRes = NoResult
    /\ epc = "encrypt"

\* save*Config: the value EncryptConfig returns is written to the database
CryptoEncrypt ==
    /\ epc = "encrypt"
    /\ stored' = EncryptConfig(encReq.userID, encReq.configType, encReq.data,
                               encReq.nonce)
    /\ epc' = "stored"
    /\ UNCHANGED <<encReq, decReq, decRes, noncryptovars>>

\* one bit of character c of the stored text flipped; a padding character
\* becomes a character of the alphabet
FlipBit(c, k) ==
    IF c = Pad THEN k
    ELSE IF (c \div (2 ^ k)) % 2 = 1 THEN c - 2 ^ k ELSE c + 2 ^ k

\* the stored value is altered in one character before it is read back
CryptoTamper ==
    /\ epc = "stored"
    /\ \E i \in 1..Len(stored), k \in 0..5 :
          stored' = [stored EXCEPT ![i] = FlipBit(stored[i], k)]
    /\ epc' = "altered"
    /\ UNCHANGED <<encReq, decReq, decRes, noncryptovars>>

\* load*Config: DecryptConfig of the stored value, under any pair
CryptoDecrypt ==
    /\ epc \in {"stored", "altered"}
    /\ \E u \in UserIDs, t \in ConfigTypes :
          /\ decReq' = [userID |-> u, configType |-> t]
          /\ decRes' = DecryptConfig(u, t, stored)
    /\ epc' = IF epc = "stored" THEN "read" ELSE "read_altered"
    /\ UNCHANGED <<encReq, stored, noncryptovars>>

CNext == CryptoEncrypt \/ CryptoTamper \/ CryptoDecrypt

SpecCrypto == CInit /\ [][CNext]_vars

\* ------------------------------------------------------------ rate limiters
Burst == 1          \* the burst the middleware is built with
MaxIdle == 2        \* hours without a request that are told apart

\* time.Hour, in minutes
Hour == 60

\* rate.NewLimiter(r, b): the bucket starts full
NewLimiter == [present |-> TRUE, tokens |-> Burst, idle |-> 0]

\* limiter.AllowN(now, n): n tokens are there to take
AllowN(lim, n) == lim.tokens - n >= 0

\* minutes between time.Now() and the time.Since that takes it as argument
Elapsed == {0, 1}

RInit ==
    /\ BrokerOff /\ QueryOff /\ TunnelInit /\ SchemaOff /\ CryptoOff /\ PoolOff
    /\ PostgresOff
    /\ RateOff

\* limiter.Allow() of a request: one token taken when there is one
Allow(lim) == [lim EXCEPT !.tokens = IF AllowN(lim, 1) THEN @ - 1 ELSE @,
                          !.idle = 0]

\* RateLimitMiddleware: GetLimiterForIP, AddIP for a new address, Allow
IPRequest(ip) ==
    /\ ips' = [ips EXCEPT ![ip] = Allow(IF @.present THEN @ ELSE NewLimiter)]
    /\ UNCHANGED <<limiters, ipTick, userTick, nonratevars>>

\* UserRateLimitMiddleware: the handler of a request with claims
UserRequest(u) ==
    /\ limiters' = [limiters EXCEPT ![u] = Allow(IF @.present THEN @ ELSE NewLimiter)]
    /\ UNCHANGED <<ips, ipTick, userTick, nonratevars>>

Older(lim) ==
    IF lim.present
    THEN [lim EXCEPT !.tokens = Burst,
                     !.idle = IF @ < MaxIdle THEN @ + 1 ELSE @]
    ELSE lim

\* an hour passes: both tickers fire, every bucket is full again
HourPasses ==
    /\ ips' = [k \in IPs |-> Older(ips[k])]
    /\ limiters' = [u \in Users |-> Older(limiters[u])]
    /\ ipTick' = TRUE
    /\ userTick' = TRUE
    /\ UNCHANGED nonratevars

\* the test of the cleanup loops: the limiter must refuse zero tokens, and
\* the time since time.Now() must exceed an hour
Stale(lim, since) == ~AllowN(lim, 0) /\ since > Hour

Swept(m, since) ==
    [k \in DOMAIN m |-> IF m[k].present /\ Stale(m[k], since) THEN NoLimiter ELSE m[k]]

\* the goroutine of RateLimitMiddleware on a tick: CleanupStaleIPs
CleanupStaleIPs ==
    /\ ipTick
    /\ \E since \in Elapsed : ips' = Swept(ips, since)
    /\ ipTick' = FALSE
    /\ UNCHANGED <<limiters, userTick, nonratevars>>

\* the goroutine of UserRateLimitMiddleware on a tick
CleanupStaleUsers ==
    /\ userTick
    /\ \E since \in Elapsed : limiters' = Swept(limiters, since)
    /\ userTick' = FALSE
    /\ UNCHANGED <<ips, ipTick, nonratevars>>

RNext ==
    \/ \E ip \in IPs : IPRequest(ip)
    \/ \E u \in Users : UserRequest(u)
    \/ HourPasses
    \/ CleanupStaleIPs
    \/ CleanupStaleUsers

\* time goes on and the ticker goroutines run
SpecRateLimit ==
    /\ RInit /\ [][RNext]_vars
    /\ WF_vars(HourPasses) /\ WF_vars(CleanupStaleIPs) /\ WF_vars(CleanupStaleUsers)

\* ------------------------------- concurrent GetDatabaseSchema on one pool
MaxRequests == 10   \* schema requests of one user in flight together

\* poolConfig.MaxConns
MaxConns == 10

\* connections of the pool the requests hold: one for the open rows of the
\* tables query, a second one while the columns query runs
InUse(reqs) == reqs["tables"] + reqs["waiting"] + 2 * reqs["columns"]

Move(reqs, from, to) == [reqs EXCEPT ![from] = @ - 1, ![to] = @ + 1]

GInit ==
    /\ BrokerOff /\ QueryOff /\ TunnelInit /\ SchemaOff /\ CryptoOff /\ RateOff
    /\ PostgresOff
    /\ schemaReqs = [s \in SchemaStages |-> IF s = "new" THEN MaxRequests ELSE 0]

\* getDatabaseSchema: pool.Query of the tables query gets a connection, and
\* rows keeps it until the deferred rows.Close
TablesQuery ==
    /\ schemaReqs["new"] > 0
    /\ InUse(schemaReqs) < MaxConns
    /\ schemaReqs' = Move(schemaReqs, "new", "tables")
    /\ UNCHANGED nonpoolvars

\* rows.Next() returned a table: getTableColumns calls pool.Query on the same
\* pool while rows is open
ColumnsCall ==
    /\ schemaReqs["tables"] > 0
    /\ schemaReqs' = Move(schemaReqs, "tables", "waiting")
    /\ UNCHANGED nonpoolvars

\* pool.Query of getTableColumns gets a connection when one is free
ColumnsAcquire ==
    /\ schemaReqs["waiting"] > 0
    /\ InUse(schemaReqs) < MaxConns
    /\ schemaReqs' = Move(schemaReqs, "waiting", "columns")
    /\ UNCHANGED nonpoolvars

\* getTableColumns returns: its deferred rows.Close gives the connection back
ColumnsReturn ==
    /\ schemaReqs["columns"] > 0
    /\ schemaReqs' = Move(schemaReqs, "columns", "tables")
    /\ UNCHANGED nonpoolvars

\* the request's 30 s deadline passes while it waits: pool.Query fails, the
\* table goes without columns, rows.Next() ends the loop, rows.Close runs
ColumnsTimeout ==
    /\ schemaReqs["waiting"] > 0
    /\ schemaReqs' = Move(schemaReqs, "waiting", "done")
    /\ UNCHANGED nonpoolvars

\* rows.Next() returned false: the schema is returned, rows.Close runs
TablesEnd ==
    /\ schemaReqs["tables"] > 0
    /\ schemaReqs' = Move(schemaReqs, "tables", "done")
    /\ UNCHANGED nonpoolvars

GNext ==
    \/ TablesQuery
    \/ ColumnsCall
    \/ ColumnsAcquire
    \/ ColumnsReturn
    \/ ColumnsTimeout
    \/ TablesEnd

SpecSchemaPool == GInit /\ [][GNext]_vars

\* ----------------------------------------------- PostgresDB, system database
MaxDBPools == 3     \* pools pgxpool.NewWithConfig builds for the system database
MaxDBCloses == 2    \* calls of PostgresDB.Close

ConnectOutcomes == {"create_error", "ping_error", "ok"}

\* connect: NewWithConfig returned a pool
Built(outcome) == outcome # "create_error"

ReplacesBeforePing(outcome) == outcome # "create_error"

\* connect: db.pool is assigned only after NewWithConfig and Ping succeeded
Replaces(outcome) == outcome = "ok"

PInit ==
    /\ BrokerOff /\ QueryOff /\ TunnelInit /\ SchemaOff /\ CryptoOff /\ RateOff
    /\ PoolOff
    /\ dbPools = <<[state |-> "open", pinged |-> TRUE]>>
    /\ dbPool = 1
    /\ dbmu = Free
    /\ hcpc = "wait"
    /\ dcpc = "idle"
    /\ dbCloses = 0
    /\ dbq = "none"

\* healthCheck at a tick: ping reads db.pool under RLock; a nil pool is an
\* error, and so is a failed Ping (of a closed pool, or of an unreachable
\* database); on an error connect is called
HealthPing ==
    /\ hcpc = "wait"
    /\ dbmu = Free
    /\ \E pingOk \in BOOLEAN :
          /\ pingOk => (dbPool # NoDBPool /\ dbPools[dbPool].state = "open")
          /\ hcpc' = IF pingOk THEN "wait" ELSE "connect"
    /\ UNCHANGED <<dbPools, dbPool, dbmu, dcpc, dbCloses, dbq, nonpgvars>>

\* connect: db.mu.Lock
ConnectLock ==
    /\ hcpc = "connect"
    /\ dbmu = Free
    /\ dbmu' = "connect"
    /\ hcpc' = "locked"
    /\ UNCHANGED <<dbPools, dbPool, dcpc, dbCloses, dbq, nonpgvars>>

\* connect under the lock: NewWithConfig, Ping, pool.Close() when Ping failed,
\* otherwise db.pool.Close() of the old pool and the assignment; the deferred
\* Unlock
ConnectBody ==
    /\ hcpc = "locked"
    /\ \E outcome \in ConnectOutcomes :
        LET new == Len(dbPools) + 1
            old == IF Replaces(outcome) /\ dbPool # NoDBPool
                   THEN [dbPools EXCEPT ![dbPool].state = "closed"]
                   ELSE dbPools
        IN  /\ Built(outcome) => Len(dbPools) < MaxDBPools
            /\ dbPools' = IF Built(outcome)
                          THEN Append(old, [state |-> IF outcome = "ok" THEN "open"
                                                      ELSE "closed",
                                            pinged |-> outcome = "ok"])
                          ELSE dbPools
            /\ dbPool' = IF Replaces(outcome) THEN new ELSE dbPool
    /\ dbmu' = Free
    /\ hcpc' = "wait"
    /\ UNCHANGED <<dcpc, dbCloses, dbq, nonpgvars>>

\* Close: db.mu.Lock
PostgresCloseLock ==
    /\ dcpc = "idle"
    /\ dbCloses < MaxDBCloses
    /\ dbmu = Free
    /\ dbmu' = "close"
    /\ dcpc' = "locked"
    /\ UNCHANGED <<dbPools, dbPool, hcpc, dbCloses, dbq, nonpgvars>>

\* Close under the lock: the pool is closed and db.pool set to nil; Close
\* returns
PostgresCloseBody ==
    /\ dcpc = "locked"
    /\ dbPools' = IF dbPool # NoDBPool
                  THEN [dbPools EXCEPT ![dbPool].state = "closed"]
                  ELSE dbPools
    /\ dbPool' = NoDBPool
    /\ dbmu' = Free
    /\ dcpc' = "idle"
    /\ dbCloses' = dbCloses + 1
    /\ UNCHANGED <<hcpc, dbq, nonpgvars>>

\* Query / Exec: GetPool under RLock, 'database pool is not available' for a
\* nil pool, otherwise the statement goes to the pool
PostgresQuery ==
    /\ dbmu = Free
    /\ dbq' = IF dbPool = NoDBPool THEN "unavailable" ELSE "sent"
    /\ UNCHANGED <<dbPools, dbPool, dbmu, hcpc, dcpc, dbCloses, nonpgvars>>

PNext ==
    \/ HealthPing
    \/ ConnectLock
    \/ ConnectBody
    \/ PostgresCloseLock
    \/ PostgresCloseBody
    \/ PostgresQuery

SpecPostgres == PInit /\ [][PNext]_vars

\* ------------------------------------------------------------ properties
PoolIds == 1..Len(pools)
TunnelIds == 1..Len(tunnels)

\* p holds the pool GetUserDatabaseConnection returned to it
HoldsPool(p) == loc[p].op = "exec" /\ pc[p] \in {"exec_query", "exec_rows"}

\* C1: callers of GetUserDatabaseConnection for one user are all handed the
\* same pool: no two of them hold different open pools of that user, which
\* takes two runs of createUserConnection.
C1_AllCallersSamePool ==
    \A p, q \in Procs :
        ( /\ HoldsPool(p) /\ HoldsPool(q)
          /\ loc[p].usr = loc[q].usr
          /\ pools[loc[p].pool].state = "open"
          /\ pools[loc[q].pool].state = "open" )
        => loc[p].pool = loc[q].pool

\* the pools GetUserDatabaseConnection built for u that are not closed
OpenPoolsOf(u) == {i \in PoolIds : pools[i].owner = u /\ pools[i].state # "closed"}

\* C2: at any moment a user has at most one open pool built by
\* GetUserDatabaseConnection.
C2_AtMostOneOpenPool == \A u \in Users : Cardinality(OpenPoolsOf(u)) <= 1

\* the newest configuration of u whose CreateDatabaseConfig has answered, and
\* every older one too
Acked(u) ==
    LET answered == {v \in 0..totalConnections[u] :
                        \A p \in Procs : ~( /\ loc[p].op = "create"
                                            /\ loc[p].usr = u
                                            /\ loc[p].ver = v )}
    IN  CHOOSE v \in answered : \A w \in answered : w <= v

\* C3: a GetUserDatabaseConnection call that starts after CreateDatabaseConfig
\* has answered returns a pool built from that configuration or a newer one,
\* never from an older one (stated on the calls the cache answers, which do not
\* read the configuration themselves).
C3_NewConfigAfterCreate ==
    [][\A p \in Procs :
          (pc[p] = "idle" /\ pc'[p] = "exec_query")
          => pools[loc'[p].pool].ver >= Acked(loc'[p].usr)]_vars

\* C4: no two open SSH tunnels listen on the same local port.
C4_DistinctLocalPorts ==
    \A s, t \in TunnelIds :
        (s # t /\ ~tunnels[s].closed /\ ~tunnels[t].closed)
        => tunnels[s].port # tunnels[t].port

\* C5: a query running on the user's cached pool while
\* closeExistingUserConnection runs is not cut: no pool is closed while one of
\* its connections is in use, and while the query runs its pool is not closed
\* and the pool's tunnel is open.
C5_QueryOutlivesClose ==
    /\ \A i \in PoolIds : pools[i].state = "closed" => pools[i].inUse = 0
    /\ \A p \in Procs :
          (pc[p] = "exec_rows" /\ userDBPools[loc[p].usr] = loc[p].pool)
          => ~QueryCut(p)

\* closeExistingUserConnection waits in pool.Close for a running query of the
\* same user
C5_Witness ==
    \E p, q \in Procs :
        /\ pc[p] = "exec_rows"
        /\ pc[q] = "close_wait"
        /\ loc[q].usr = loc[p].usr
        /\ userDBPools[loc[p].usr] = loc[p].pool
        /\ pools[loc[p].pool].state = "closing"

\* a GetUserDatabaseConnection call has built i (or t) and not stored it yet
PendingPool(i) == \E p \in Procs : pc[p] = "get_store" /\ loc[p].pool = i
PendingTunnel(t) == \E p \in Procs : pc[p] \in {"get_store", "test_ping"} /\ loc[p].tun = t

\* C6: every pool and tunnel built for GetUserDatabaseConnection is in the
\* cache or gets closed: an open one that no call is about to store is cached.
C6_NoLeakedConnection ==
    /\ \A i \in PoolIds :
          (pools[i].owner \in Users /\ pools[i].state # "closed" /\ ~PendingPool(i))
          => userDBPools[pools[i].owner] = i
    /\ \A t \in TunnelIds :
          (~tunnels[t].closed /\ ~PendingTunnel(t))
          => \E u \in Users : userSSHTunnels[u] = t

\* C7: when createUserConnection fails, the tunnel and the pool it built are
\* closed before it returns, and userDBPools and userSSHTunnels are as before.
C7_FailureClosesWhatItBuilt ==
    [][\A p \in Procs :
          (pc[p] = "connect" /\ pc'[p] = "idle")
          => /\ userDBPools' = userDBPools
             /\ userSSHTunnels' = userSSHTunnels
             /\ \A i \in (Len(pools) + 1)..Len(pools') : pools'[i].state = "closed"
             /\ \A t \in (Len(tunnels) + 1)..Len(tunnels') : tunnels'[t].closed]_vars

\* the only pool built failed its Ping, the only tunnel built is closed, and
\* the caches are empty
C7_Witness ==
    /\ Len(pools) = 1 /\ ~pools[1].pinged /\ pools[1].state = "closed"
    /\ Len(tunnels) = 1 /\ tunnels[1].closed
    /\ \A u \in Users : userDBPools[u] = NoPool /\ userSSHTunnels[u] = NoTunnel

\* the tables of u that hold a row with is_active = true
ActiveRows(u) == {t \in ConnTypes : rows[u][t].active}

\* C8: a user who has saved a configuration has exactly one row with
\* is_active = true over the three tables, the one of the table
\* users.active_connection_type names.
C8_ExactlyOneActiveRow ==
    \A u \in Users : totalConnections[u] > 0 => ActiveRows(u) = {activeType[u]}

\* C9: when DeleteDatabaseConfig has answered and no configuration was saved
\* meanwhile, getUserDatabaseConfig finds no configuration for the user.
C9_DeleteRemovesConfig ==
    [][\A p \in Procs :
          ( /\ loc[p].op = "delete"
            /\ pc[p] # "idle" /\ pc'[p] = "idle"
            /\ totalConnections'[loc[p].usr] = loc[p].ver )
          => \/ activeType'[loc[p].usr] = NoType
             \/ ~rows'[loc[p].usr][activeType'[loc[p].usr]].active]_vars

\* the denylist's words, as a reader of the rule takes them
Keywords == {
    <<"D","R","O","P">>,
    <<"D","E","L","E","T","E">>,
    <<"T","R","U","N","C","A","T","E">>,
    <<"A","L","T","E","R">>,
    <<"C","R","E","A","T","E"," ","U","S","E","R">>,
    <<"D","R","O","P"," ","U","S","E","R">>,
    <<"G","R","A","N","T">>,
    <<"R","E","V","O","K","E">>,
    <<"I","N","S","E","R","T">>,
    <<"U","P","D","A","T","E">>,
    <<"C","O","P","Y">> }

ContainsKeyword(sql) == \E kw \in Keywords : Contains(ToUpper(sql), kw)

\* C10: SQL text that contains a denylisted keyword, in any letter case, is
\* rejected before GetUserDatabaseConnection is called and before any query
\* is run.
C10_KeywordRejectedFirst ==
    ContainsKeyword(qsql) => (qpc \in {"recv", "rejected"} /\ qcalls = {})

HasSuffix(s, suf) == Len(s) >= Len(suf) /\ SubSeq(s, Len(s) - Len(suf) + 1, Len(s)) = suf

\* the request's statement is a SELECT
IsSelect(sql) == HasPrefix(ToUpper(TrimSpace(sql)), <<"S","E","L","E","C","T">>)

\* the text holds the word LIMIT, in any letter case, between blanks
HasLimitClause(sql) ==
    LET up == ToUpper(sql)
    IN  \E i \in 2..(Len(up) - 5) :
           /\ up[i - 1] \in Whitespace
           /\ SubSeq(up, i, i + 4) = <<"L","I","M","I","T">>
           /\ up[i + 5] \in Whitespace

\* options.limit, or 1000 when the request sets none
RequestedLimit == IF qopt.limit = 0 THEN 1000 ELSE qopt.limit

\* C11: when the request's statement is a SELECT with no LIMIT clause, whatever
\* its other options, the statement sent to the pool ends in " LIMIT n", n
\* being options.limit, or 1000 when that is not set.
C11_SelectGetsLimit ==
    ("pool.Query" \in qcalls /\ IsSelect(qsql) /\ ~HasLimitClause(qsql))
    => HasSuffix(qsent, <<" ","L","I","M","I","T"," ">> \o Itoa(RequestedLimit))

\* C12: ExecuteQuery holds a pool connection only while executeSQL reads the
\* rows: on every way out (success, query error, expiry of options.timeout)
\* the connections checked out are back to their number before the call.
C12_ConnectionReleased == qconns = IF qpc = "rows" THEN 1 ELSE 0

\* the query ran into its deadline and its connection is back in the pool
C12_Witness == qpc = "timed_out" /\ "pool.Query" \in qcalls /\ qconns = 0

TestOps == {"testurl", "testconn"}

C14_CachedEntriesOpen ==
    mu = Free =>
        \A u \in Users :
            /\ userDBPools[u] # NoPool => pools[userDBPools[u]].state = "open"
            /\ userSSHTunnels[u] # NoTunnel => ~tunnels[userSSHTunnels[u]].closed

\* a request still holds a pool the cache handed it and that was closed and
\* removed since, while the cache holds another entry and h.mu is free
C14_Witness ==
    /\ mu = Free
    /\ \E q \in Procs : pc[q] = "exec_query" /\ pools[loc[q].pool].state = "closed"
    /\ \E u \in Users : userDBPools[u] # NoPool

\* C15: a getUserDatabaseConfig call that overlaps CreateDatabaseConfig calls
\* returns one saved configuration whole: the active row of the table of the
\* connection type it returns, saved no earlier than the configuration that
\* was current when the call read the type and no later than the newest one.
C15_ConfigNeverMixed ==
    [][\A p \in Procs :
          (loc[p].op = "exec" /\ pc[p] = "get_load" /\ pc'[p] = "connect")
          => LET u == loc[p].usr
                 t == loc'[p].ctype
                 v == loc'[p].ver
             IN  /\ rows[u][t].active /\ rows[u][t].ver = v
                 /\ loc[p].ver <= v /\ v <= totalConnections[u]]_vars

\* the call has read the type of one configuration and CreateDatabaseConfig
\* has committed another connection type before the call loads the row
C15_Witness ==
    \E p \in Procs :
        /\ loc[p].op = "exec" /\ pc[p] = "get_load"
        /\ loc[p].ver < totalConnections[loc[p].usr]
        /\ loc[p].ctype # activeType[loc[p].usr]

\* C16: once SSHTunnel.Close has returned, the listener of handleTunnel
\* accepts no further connection on the local port.
C16_NoAcceptAfterClose == [][closeReturns > 0 => accepted' = accepted]_vars

\* C17: SSHTunnel.Close is idempotent: however many calls have returned, one
\* after the other or overlapping, the tunnel is as after the first (closed
\* set, client nil, the client closed), and no call panics.
C17_CloseIdempotent ==
    /\ ~panicked
    /\ closeReturns > 0 =>
          /\ sshTunnel = [client |-> "nil", closed |-> TRUE]
          /\ sshClient = "closed"

\* Close has returned twice and a third call holds the lock
C17_Witness == closeReturns = 2 /\ \E c \in Closers : cpc[c] = "locked"

\* C18: a usage record exists only for a query that succeeded: it is started
\* once the result is there and the connection is released, and whether its
\* write is still running, has succeeded or has failed, the answer is the 200.
C18_UsageOnlyOnSuccess ==
    qlog # "none" => (qpc = "ok200" /\ "pool.Query" \in qcalls /\ qconns = 0)

\* the write of the usage record failed and the request was answered 200
C18_Witness == qlog = "failed" /\ qpc = "ok200"

\* C19: when pg_stat_user_tables cannot be read, getDatabaseSchema still
\* succeeds and returns every table, each without a row count.
C19_SchemaWithoutRowCounts ==
    (spc = "done" /\ ~senv.statsReadable)
    => /\ ~schema.err
       /\ Len(schema.tables) = senv.nTables
       /\ \A i \in 1..Len(schema.tables) : schema.tables[i].rowCount = 0

C21_RoundTrip ==
    (epc = "read" /\ decReq.userID = encReq.userID
                  /\ decReq.configType = encReq.configType)
        => (~decRes.err /\ decRes.plaintext = encReq.data)

C21_Witness ==
    /\ epc = "read" /\ encReq.data = <<>>
    /\ decReq.userID = encReq.userID /\ decReq.configType = encReq.configType
    /\ ~decRes.err /\ decRes.plaintext = <<>>

\* C22: DecryptConfig returns an error and no plaintext when the stored
\* value differs in any character from the one EncryptConfig produced, or
\* when it is decrypted under another (userID, configType) pair.
C22_TamperOrMismatchFails ==
    (epc = "read_altered"
        \/ (epc = "read" /\ <<decReq.userID, decReq.configType>>
                              # <<encReq.userID, encReq.configType>>))
        => (decRes.err /\ decRes.plaintext = <<>>)

\* C23: a limiter entry whose key has made no request for more than an hour
\* is eventually removed from its map by the hourly cleanup (or its key makes
\* a request again).
C23_StaleEntryRemoved ==
    /\ \A k \in IPs :
          (ips[k].present /\ ips[k].idle >= MaxIdle)
              ~> (~ips[k].present \/ ips[k].idle < MaxIdle)
    /\ \A u \in Users :
          (limiters[u].present /\ limiters[u].idle >= MaxIdle)
              ~> (~limiters[u].present \/ limiters[u].idle < MaxIdle)

\* C24: a tunnel that NewSSHTunnel has returned without error (every state of
\* SpecTunnel) and that nobody has closed has its local address bound and
\* listening; a port that cannot be bound is never left behind a returned
\* tunnel.
C24_BoundWhenReturned ==
    (~sshTunnel.closed /\ \A c \in Closers : cpc[c] = "idle")
        => listener = "listening"

\* the open pools built for user u that dial the local port of a tunnel
TunnelledPoolsOf(u) ==
    {i \in PoolIds : pools[i].owner = u /\ pools[i].state = "open"
                                       /\ pools[i].tunnel # NoTunnel}

\* C25: the local port an SSH user's pool dials is served by the tunnel built
\* for that user in the same call: no open tunnel built for another user's
\* pool has the same local port.
C25_TenantIsolation ==
    \A u, v \in Users : \A i \in TunnelledPoolsOf(u), j \in TunnelledPoolsOf(v) :
        ( /\ u # v
          /\ ~tunnels[pools[i].tunnel].closed
          /\ ~tunnels[pools[j].tunnel].closed )
        => tunnels[pools[i].tunnel].port # tunnels[pools[j].tunnel].port

\* C26: outside the critical sections of h.mu, a user with a cached tunnel has
\* a cached pool that was built together with that tunnel; so a user whose
\* cached pool was built without a tunnel has no cached tunnel.
C26_TunnelBelongsToPool ==
    mu = Free =>
        \A u \in Users :
            userSSHTunnels[u] # NoTunnel
            => ( /\ userDBPools[u] # NoPool
                 /\ pools[userDBPools[u]].tunnel = userSSHTunnels[u] )

\* C27: concurrent schema requests on one pool never reach a state in which
\* every connection of the pool is held by a request that is waiting for a
\* further connection for its columns query.
C27_NoCircularWait == schemaReqs["waiting"] < MaxConns

\* C28: a request with options.dry_run set never has its statement handed to
\* pool.Query.
C28_DryRunNotExecuted == qopt.dryRun => "pool.Query" \notin qcalls

\* C29: once a call of PostgresDB.Close has returned, db.pool is nil in every
\* later state (so that Query and Exec answer 'pool is not available'): no
\* later step, the health check included, connects again.
C29_ClosedStaysClosed == dbCloses > 0 => dbPool = NoDBPool

\* C30: connect assigns db.pool only a pool it has created and pinged, while
\* it holds db.mu, and the pool it replaces is closed in that same step; a
\* failed connect leaves db.pool as it was and leaves no pool it built open.
C30_FailedReconnectKeepsPool ==
    [][hcpc = "locked" =>
          /\ dbmu = "connect"
          /\ \A i \in 1..Len(dbPools') :
                (i > Len(dbPools) /\ dbPools'[i].state = "open") => dbPool' = i
          /\ IF dbPool' # dbPool
             THEN /\ dbPool' > Len(dbPools)
                  /\ dbPools'[dbPool'] = [state |-> "open", pinged |-> TRUE]
                  /\ dbPool # NoDBPool => dbPools'[dbPool].state = "closed"
             ELSE \A i \in 1..Len(dbPools) : dbPools'[i] = dbPools[i]]_vars

\* a reconnect whose Ping failed: the pool it built is closed, and db.pool is
\* still the open pool of before
C30_Witness ==
    /\ hcpc = "wait" /\ dbPool = 1 /\ dbPools[1].state = "open"
    /\ Len(dbPools) >= 2 /\ dbPools[2] = [state |-> "closed", pinged |-> FALSE]

====
